---- MODULE Spec2Model ----
(***************************************************************************)
(* Pong on an entity-component-system engine (src/src/main.rs).            *)
(*                                                                         *)
(* One frame of the Update schedule runs each of the nine systems once, in *)
(* any order that respects the .after() constraints of main.  A system is  *)
(* one atomic action: systems with conflicting data access never overlap.  *)
(*                                                                         *)
(* Numbers.  The program computes in f32.  Positions, velocities and sizes *)
(* are kept here as integers counting halves (Unit per 1.0): every value   *)
(* the model reaches is a multiple of 0.5 of magnitude below 2^23, on      *)
(* which f32 addition, negation, halving and comparison are exact.  The    *)
(* serve velocity of reset_ball is computed on the raw random draws with   *)
(* f32 rounding (round to nearest, ties to even) in units of 2^-24.        *)
(***************************************************************************)
EXTENDS Integers, Sequences, FiniteSets, TLC

VARIABLES
    present,      \* whether get_single finds the Ball, the Window
    window,       \* Window.resolution: [w, h]
    ballPos,      \* Position of the Ball entity: [x, y]
    ballVel,      \* Velocity of the Ball entity: [x, y]
    padPos,       \* Position of each paddle: [Player |-> [x, y], Ai |-> [x, y]]
    padVel,       \* Velocity of each paddle
    gutters,      \* the two Gutter entities: <<[pos, shape], [pos, shape]>>
    transform,    \* Transform.translation (x, y) of ball, paddles, gutters
    keys,         \* ButtonInput<KeyCode>: the set of pressed keys
    score,        \* Score resource: [player, ai]
    scoreChanged, \* Score was mutated since update_scoreboard last ran
    labels,       \* sections[0].value of the two scoreboard texts
    events_a,     \* Events<Scored>: the older buffer
    events_b,     \* Events<Scored>: the buffer being written
    event_count,  \* Events<Scored>: number of events ever sent
    cursor,       \* last_event_count of each EventReader
    ran,          \* the systems that have run in the current frame
    frame,        \* number of the current frame
    serve,        \* the last serve: scorer, raw draws, raw f32 velocity
    hist          \* history: what was sent and read, and when; the frame of
                  \* the last write of the labels; the ball, the paddles and
                  \* the score as the current frame found them

vars == <<present, window, ballPos, ballVel, padPos, padVel, gutters, transform, keys,
          score, scoreChanged, labels, events_a, events_b, event_count,
          cursor, ran, frame, serve, hist>>

-----------------------------------------------------------------------------
(* Numbers. *)

\* fixed-point resolution of the f32 values of the game state: halves
Unit == 2

BALL_RADIUS == 5 * Unit
PADDLE_WIDTH == 10 * Unit
PADDLE_HEIGHT == 50 * Unit
GUTTER_HEIGHT == 20 * Unit
PADDLE_SPEED == 5 * Unit

Abs(n) == IF n < 0 THEN -n ELSE n

Vec2(a, b) == [x |-> a, y |-> b]

\* f32: one unit in the last place of a value n counted in units of 2^-24
\* (24 significant bits), for |n| < 8.0
UlpF32(n) ==
    IF Abs(n) < 2^24 THEN 1
    ELSE IF Abs(n) < 2^25 THEN 2
    ELSE IF Abs(n) < 2^26 THEN 4
    ELSE 8

\* f32: the result of an arithmetic operation whose exact value is n (in
\* units of 2^-24): the nearest representable value, ties to the even one
RoundF32(n) ==
    LET u == UlpF32(n)
        m == Abs(n)
        lo == (m \div u) * u
        r == m - lo
        up == IF 2 * r > u THEN TRUE
              ELSE IF 2 * r < u THEN FALSE
              ELSE (lo \div u) % 2 = 1
        res == IF up THEN lo + u ELSE lo
    IN  IF n < 0 THEN -res ELSE res

\* the sign had it been 0 at zero, as the mathematical sign is
SignumZeroAtZero(n) == IF n > 0 THEN 1 ELSE IF n < 0 THEN -1 ELSE 0

\* f32::signum: 1.0 for positive values and +0.0, -1.0 for negative ones
Signum(n) == IF n >= 0 THEN 1 ELSE -1

\* a value in units of 2^-24 as a count of halves
ToUnits(n) == (n * Unit) \div 2^24

-----------------------------------------------------------------------------
(* Entities, keys and the schedule. *)

Scorers == {"Player", "Ai"}
Paddles == {"Player", "Ai"}
Keys == {"KeyY", "KeyN", "KeyW", "KeyX"}
Entities == {"Ball", "Player", "Ai", "TopGutter", "BottomGutter"}

Systems == {"move_ball", "project_positions", "handle_collisions",
            "handle_player_input", "move_paddles", "detect_scoring",
            "reset_ball", "update_score", "update_scoreboard"}

\* the schedule had reset_ball been added without .after(detect_scoring)
AfterUnorderedReset ==
    {<<"move_ball", "project_positions">>,
     <<"move_ball", "handle_collisions">>,
     <<"move_ball", "handle_player_input">>,
     <<"handle_player_input", "move_paddles">>,
     <<"move_ball", "detect_scoring">>,
     <<"move_ball", "reset_ball">>,
     <<"detect_scoring", "update_score">>,
     <<"update_score", "update_scoreboard">>}

\* the schedule had update_scoreboard been ordered after detect_scoring
\* instead of update_score
AfterUnorderedScoreboard ==
    {<<"move_ball", "project_positions">>,
     <<"move_ball", "handle_collisions">>,
     <<"move_ball", "handle_player_input">>,
     <<"handle_player_input", "move_paddles">>,
     <<"move_ball", "detect_scoring">>,
     <<"detect_scoring", "reset_ball">>,
     <<"detect_scoring", "update_score">>,
     <<"detect_scoring", "update_scoreboard">>}

\* the schedule had detect_scoring been added without .after(move_ball)
AfterUnorderedDetect ==
    {<<"move_ball", "project_positions">>,
     <<"move_ball", "handle_collisions">>,
     <<"move_ball", "handle_player_input">>,
     <<"handle_player_input", "move_paddles">>,
     <<"detect_scoring", "reset_ball">>,
     <<"detect_scoring", "update_score">>,
     <<"update_score", "update_scoreboard">>}

\* the schedule had move_paddles been added without .after(handle_player_input)
AfterUnorderedPaddles ==
    {<<"move_ball", "project_positions">>,
     <<"move_ball", "handle_collisions">>,
     <<"move_ball", "handle_player_input">>,
     <<"move_ball", "detect_scoring">>,
     <<"detect_scoring", "reset_ball">>,
     <<"detect_scoring", "update_score">>,
     <<"update_score", "update_scoreboard">>}

\* <<a, b>>: b was added with .after(a)
After == {<<"move_ball", "project_positions">>,
          <<"move_ball", "handle_collisions">>,
          <<"move_ball", "handle_player_input">>,
          <<"handle_player_input", "move_paddles">>,
          <<"move_ball", "detect_scoring">>,
          <<"detect_scoring", "reset_ball">>,
          <<"detect_scoring", "update_score">>,
          <<"update_score", "update_scoreboard">>}

\* system s may run now: it has not run in this frame, and every system it
\* is ordered after has
Ready(s) == /\ s \notin ran
            /\ \A o \in After : o[2] = s => o[1] \in ran

\* between two frames: every system of the frame has run
FrameDone == ran = Systems

-----------------------------------------------------------------------------
(* Geometry: BoundingCircle and Aabb2d. *)

\* Aabb2d::new(center, half_size)
Aabb2d(center, half) ==
    [min |-> Vec2(center.x - half.x, center.y - half.y),
     max |-> Vec2(center.x + half.x, center.y + half.y)]

Clamp(v, lo, hi) == IF v < lo THEN lo ELSE IF v > hi THEN hi ELSE v

\* Aabb2d::closest_point: the point clamped into the box
closest_point(wall, p) ==
    Vec2(Clamp(p.x, wall.min.x, wall.max.x), Clamp(p.y, wall.min.y, wall.max.y))

\* squared distance from the circle's centre to the closest point of the box
DistanceSquared(center, wall) ==
    LET c == closest_point(wall, center)
    IN  (center.x - c.x) * (center.x - c.x) + (center.y - c.y) * (center.y - c.y)

\* BoundingCircle::intersects(&Aabb2d): distance_squared <= radius^2
intersects(center, radius, wall) ==
    DistanceSquared(center, wall) <= radius * radius

\* the classification had the early return for a missed wall been left out
collide_with_sideUntested(center, radius, wall) ==
    LET c == closest_point(wall, center)
        offset == Vec2(center.x - c.x, center.y - c.y)
    IN  IF Abs(offset.x) > Abs(offset.y)
        THEN IF offset.x > 0 THEN "Left" ELSE "Right"
        ELSE IF offset.y > 0 THEN "Bottom" ELSE "Top"

\* the classification had the comparison been |offset.x| >= |offset.y|
collide_with_sideTieToSides(center, radius, wall) ==
    IF ~intersects(center, radius, wall) THEN "None"
    ELSE LET c == closest_point(wall, center)
             offset == Vec2(center.x - c.x, center.y - c.y)
         IN  IF Abs(offset.x) >= Abs(offset.y)
             THEN IF offset.x > 0 THEN "Left" ELSE "Right"
             ELSE IF offset.y > 0 THEN "Bottom" ELSE "Top"

\* the side of the wall the ball hit, or "None"
collide_with_side(center, radius, wall) ==
    IF ~intersects(center, radius, wall) THEN "None"
    ELSE LET c == closest_point(wall, center)
             offset == Vec2(center.x - c.x, center.y - c.y)
         IN  IF Abs(offset.x) > Abs(offset.y)
             THEN IF offset.x > 0 THEN "Left" ELSE "Right"
             ELSE IF offset.y > 0 THEN "Bottom" ELSE "Top"

\* the entities of the query others: (Position, Shape) without Ball
Others == <<[pos |-> padPos["Player"], shape |-> Vec2(PADDLE_WIDTH, PADDLE_HEIGHT)],
            [pos |-> padPos["Ai"], shape |-> Vec2(PADDLE_WIDTH, PADDLE_HEIGHT)],
            gutters[1], gutters[2]>>

\* Aabb2d::new(position.0, shape.0 / 2.)
OtherRect(o) == Aabb2d(o.pos, Vec2(o.shape.x \div 2, o.shape.y \div 2))

\* the response had a Top or Bottom hit stopped the vertical motion
RespondStops(vel, collision) ==
    IF collision \in {"Top", "Bottom"} THEN Vec2(vel.x, 0)
    ELSE IF collision \in {"Left", "Right"} THEN Vec2(-vel.x, vel.y)
    ELSE vel

\* the ball's velocity after the response to one collision result
Respond(vel, collision) ==
    IF collision \in {"Top", "Bottom"} THEN Vec2(vel.x, -vel.y)
    ELSE IF collision \in {"Left", "Right"} THEN Vec2(-vel.x, vel.y)
    ELSE vel

\* the loop of handle_collisions over others[i..], from velocity vel
RECURSIVE CollideFrom(_, _, _, _)
CollideFrom(vel, pos, others, i) ==
    IF i > Len(others) THEN vel
    ELSE CollideFrom(
             Respond(vel, collide_with_side(pos, BALL_RADIUS, OtherRect(others[i]))),
             pos, others, i + 1)

-----------------------------------------------------------------------------
(* The serve of reset_ball, on raw draws. *)

\* random::<f32>() returns k * 2^-24 for an integer 0 <= k < 2^24

\* (random::<f32>() - 0.5) * 3., then pushed outward by 4. in the direction
\* of its own sign; in units of 2^-24
ServeY(k) ==
    LET base == RoundF32((k - 2^23) * 3)
    IN  RoundF32(base + Signum(base) * 4 * 2^24)

\* 4. + random::<f32>() * 3.; in units of 2^-24
ServeXMag(k) == RoundF32(4 * 2^24 + RoundF32(k * 3))

\* the serve direction had both scorers been served the same way
x_dirSame(scorer) == IF scorer = "Player" THEN 1 ELSE 1

x_dir(scorer) == IF scorer = "Player" THEN -1 ELSE 1

\* the velocity reset_ball assigns for draws ky (first) and kx (second), in
\* units of 2^-24
ServeVelocity(scorer, ky, kx) == Vec2(x_dir(scorer) * ServeXMag(kx), ServeY(ky))

-----------------------------------------------------------------------------
(* Events<Scored> and its readers. *)

\* the events a reader whose cursor is c has not read yet, oldest first
Unread(c) == SelectSeq(events_a \o events_b, LAMBDA e : e.id >= c)

\* u32::to_string: the decimal digits, most significant first
RECURSIVE to_string(_)
to_string(n) == IF n < 10 THEN <<n>> ELSE Append(to_string(n \div 10), n % 10)

-----------------------------------------------------------------------------
(* Startup. *)

\* the entities the systems look up with get_single
Singletons == {"Ball", "Window"}

\* spawn_paddles: padding = 50.
PADDING == 50 * Unit

\* the draws the serves of a game are made with: the least, the one that
\* makes the base Y value exactly 0, and the greatest; their serve velocities
\* are multiples of 0.5
GameDraws == {0, 2^23, 2^24 - 1}

NoServe == [scorer |-> "None", ky |-> 0, kx |-> 0, vel |-> Vec2(0, 0)]

\* the state after the Startup schedule in a window of w by h
InitWith(w, h) ==
    /\ present = [e \in Singletons |-> TRUE]                   \* spawn_ball, the primary window
    /\ window = [w |-> w, h |-> h]
    /\ ballPos = Vec2(0, 0)                                    \* BallBundle::new
    /\ ballVel = Vec2(5 * Unit, 0)                             \* spawn_ball
    /\ padPos = [p \in Paddles |->                             \* spawn_paddles
                   IF p = "Player" THEN Vec2(-w \div 2 + PADDING, 0)
                   ELSE Vec2(w \div 2 - PADDING, 0)]
    /\ padVel = [p \in Paddles |-> Vec2(0, 0)]                 \* PaddleBundle::new
    /\ gutters = <<[pos |-> Vec2(0, h \div 2 - GUTTER_HEIGHT \div 2),
                    shape |-> Vec2(w, GUTTER_HEIGHT)],
                   [pos |-> Vec2(0, -h \div 2 + GUTTER_HEIGHT \div 2),
                    shape |-> Vec2(w, GUTTER_HEIGHT)]>>        \* spawn_gutters
    /\ transform = [e \in Entities |-> Vec2(0, 0)]             \* Transform::default
    /\ keys = {}
    /\ score = [player |-> 0, ai |-> 0]                        \* init_resource
    /\ scoreChanged = TRUE                                     \* added: changed
    /\ labels = [player |-> <<0>>, ai |-> <<0>>]               \* spawn_scoreboard
    /\ events_a = <<>>
    /\ events_b = <<>>
    /\ event_count = 0
    /\ cursor = [r \in {"update_score", "reset_ball"} |-> 0]
    /\ ran = Systems
    /\ frame = 0
    /\ serve = NoServe
    /\ hist = [sends |-> <<>>, reads |-> {}, lastWrite |-> 0,
               start |-> [ballPos |-> ballPos, ballVel |-> ballVel,
                          padPos |-> padPos, score |-> score]]

-----------------------------------------------------------------------------
(* The engine between two frames. *)

\* Events::update: the written buffer becomes the older one
EventsUpdated(upd) ==
    IF upd THEN /\ events_a' = events_b
                /\ events_b' = <<>>
    ELSE UNCHANGED <<events_a, events_b>>

\* A frame starts: event_update_system (schedule First) rotates the buffers
\* of Events<Scored>, unless it waits for a fixed-timestep run; the keyboard
\* state becomes one of keyStates.  At most maxFrames frames are modelled.
BeginFrame(keyStates, maxFrames) ==
    /\ FrameDone
    /\ frame < maxFrames
    /\ frame' = frame + 1
    /\ ran' = {}
    /\ \E upd \in BOOLEAN : EventsUpdated(upd)
    /\ \E k \in keyStates : keys' = k
    /\ hist' = [hist EXCEPT !.start = [ballPos |-> ballPos, ballVel |-> ballVel,
                                       padPos |-> padPos, score |-> score]]
    /\ UNCHANGED <<present, window, ballPos, ballVel, padPos, padVel, gutters, transform,
                   score, scoreChanged, labels, event_count, cursor, serve>>

-----------------------------------------------------------------------------
(* The systems of the Update schedule. *)

Run(s) == /\ Ready(s)
          /\ ran' = ran \cup {s}
          /\ UNCHANGED frame

\* get_single had it found the entity whether or not there is exactly one
FoundAlways(e) == TRUE

\* Query::get_single (get_single_mut) of entity e is Ok
Found(e) == present[e]

move_ball ==
    /\ Run("move_ball")
    /\ ballPos' = IF Found("Ball")
                  THEN Vec2(ballPos.x + ballVel.x, ballPos.y + ballVel.y)
                  ELSE ballPos
    /\ UNCHANGED <<present, window, ballVel, padPos, padVel, gutters, transform, keys,
                   score, scoreChanged, labels, events_a, events_b, event_count,
                   cursor, serve, hist>>

project_positions ==
    /\ Run("project_positions")
    /\ transform' = [e \in Entities |->
                       CASE e = "Ball" -> ballPos
                         [] e \in Paddles -> padPos[e]
                         [] e = "TopGutter" -> gutters[1].pos
                         [] e = "BottomGutter" -> gutters[2].pos]
    /\ UNCHANGED <<present, window, ballPos, ballVel, padPos, padVel, gutters, keys,
                   score, scoreChanged, labels, events_a, events_b, event_count,
                   cursor, serve, hist>>

handle_collisions ==
    /\ Run("handle_collisions")
    /\ ballVel' = IF Found("Ball")
                  THEN CollideFrom(ballVel, ballPos, Others, 1)
                  ELSE ballVel
    /\ UNCHANGED <<present, window, ballPos, padPos, padVel, gutters, transform, keys,
                   score, scoreChanged, labels, events_a, events_b, event_count,
                   cursor, serve, hist>>

\* the input rule had the down key been tested first
InputVelocityYDownFirst(up, down) ==
    IF down \in keys THEN -PADDLE_SPEED
    ELSE IF up \in keys THEN PADDLE_SPEED
    ELSE 0

\* velocity.y of a paddle whose up and down keys are up and down
InputVelocityY(up, down) ==
    IF up \in keys THEN PADDLE_SPEED
    ELSE IF down \in keys THEN -PADDLE_SPEED
    ELSE 0

handle_player_input ==
    /\ Run("handle_player_input")
    /\ padVel' = [p \in Paddles |->
                    IF p = "Player"
                    THEN Vec2(padVel[p].x, InputVelocityY("KeyY", "KeyN"))
                    ELSE Vec2(padVel[p].x, InputVelocityY("KeyW", "KeyX"))]
    /\ UNCHANGED <<present, window, ballPos, ballVel, padPos, gutters, transform, keys,
                   score, scoreChanged, labels, events_a, events_b, event_count,
                   cursor, serve, hist>>

Max(a, b) == IF a > b THEN a ELSE b
Min(a, b) == IF a < b THEN a ELSE b

\* the paddle motion had the upper clamp been left out
PaddleYNoUpperClamp(y, vy, h) == Max(y + vy, -h \div 2 + PADDLE_HEIGHT \div 2)

\* the paddle motion had the clamps been fixed for the 120 high window the
\* game started in
PaddleYStartupHeight(y, vy, h) ==
    Min(Max(y + vy, -60 * Unit + PADDLE_HEIGHT \div 2), 60 * Unit - PADDLE_HEIGHT \div 2)

\* a paddle's y after its motion and the two clamps, in a window of height h
PaddleY(y, vy, h) ==
    Min(Max(y + vy, -h \div 2 + PADDLE_HEIGHT \div 2), h \div 2 - PADDLE_HEIGHT \div 2)

move_paddles ==
    /\ Run("move_paddles")
    /\ padPos' = IF Found("Window")
                 THEN [p \in Paddles |->
                         Vec2(padPos[p].x, PaddleY(padPos[p].y, padVel[p].y, window.h))]
                 ELSE padPos
    /\ UNCHANGED <<present, window, ballPos, ballVel, padVel, gutters, transform, keys,
                   score, scoreChanged, labels, events_a, events_b, event_count,
                   cursor, serve, hist>>

\* the scoring test had it compared with the width instead of half of it
ScoringFullWidth(x, w) ==
    IF x > w THEN <<"Player">>
    ELSE IF x < -w THEN <<"Ai">>
    ELSE <<>>

\* the scoring test had it counted a ball on the boundary as out
ScoringInclusive(x, w) ==
    IF x >= w \div 2 THEN <<"Player">>
    ELSE IF x <= -w \div 2 THEN <<"Ai">>
    ELSE <<>>

\* the events detect_scoring sends for a ball at x in a window of width w
Scoring(x, w) ==
    IF x > w \div 2 THEN <<"Player">>
    ELSE IF x < -w \div 2 THEN <<"Ai">>
    ELSE <<>>

\* Events::send of each scorer of sent, in order, from event_count on
Instances(sent) == [i \in 1..Len(sent) |-> [id |-> event_count + i - 1, scorer |-> sent[i]]]

detect_scoring ==
    /\ Run("detect_scoring")
    /\ LET sent == IF Found("Window") /\ Found("Ball")
                   THEN Scoring(ballPos.x, window.w)
                   ELSE <<>>
       IN  /\ events_b' = events_b \o Instances(sent)
           /\ event_count' = event_count + Len(sent)
           /\ hist' = [hist EXCEPT !.sends =
                         @ \o [i \in 1..Len(sent) |-> [scorer |-> sent[i], frame |-> frame]]]
    /\ UNCHANGED <<present, window, ballPos, ballVel, padPos, padVel, gutters, transform,
                   keys, score, scoreChanged, labels, events_a, cursor, serve>>

\* the history after reader r has read the events evs in this frame
Read(r, evs) ==
    [hist EXCEPT !.reads = @ \cup
        {[reader |-> r, id |-> evs[i].id, frame |-> frame,
          nth |-> 1 + Cardinality({x \in hist.reads : x.reader = r /\ x.id = evs[i].id})]
         : i \in 1..Len(evs)}]

\* the count had both arms of the match incremented score.player
RECURSIVE CountedOneCounter(_, _, _)
CountedOneCounter(sc, evs, i) ==
    IF i > Len(evs) THEN sc
    ELSE CountedOneCounter([sc EXCEPT !.player = @ + 1], evs, i + 1)

\* the score after the events evs[i..], from score sc
RECURSIVE Counted(_, _, _)
Counted(sc, evs, i) ==
    IF i > Len(evs) THEN sc
    ELSE Counted(IF evs[i].scorer = "Player"
                 THEN [sc EXCEPT !.player = @ + 1]
                 ELSE [sc EXCEPT !.ai = @ + 1],
                 evs, i + 1)

\* update_score had it marked the Score changed whenever it runs, as a
\* println! through a mutable access would
update_scoreMarksChanged ==
    /\ Run("update_score")
    /\ LET evs == Unread(cursor["update_score"])
       IN  /\ score' = Counted(score, evs, 1)
           /\ scoreChanged' = TRUE
           /\ hist' = Read("update_score", evs)
    /\ cursor' = [cursor EXCEPT !["update_score"] = event_count]
    /\ UNCHANGED <<present, window, ballPos, ballVel, padPos, padVel, gutters, transform,
                   keys, labels, events_a, events_b, event_count, serve>>

update_score ==
    /\ Run("update_score")
    /\ LET evs == Unread(cursor["update_score"])
       IN  /\ score' = Counted(score, evs, 1)
           /\ scoreChanged' = (scoreChanged \/ Len(evs) > 0)
           /\ hist' = Read("update_score", evs)
    /\ cursor' = [cursor EXCEPT !["update_score"] = event_count]
    /\ UNCHANGED <<present, window, ballPos, ballVel, padPos, padVel, gutters, transform,
                   keys, labels, events_a, events_b, event_count, serve>>

\* the serve record of a reset for scorer with the draws ky and kx
Served(scorer, ky, kx) ==
    [scorer |-> scorer, ky |-> ky, kx |-> kx, vel |-> ServeVelocity(scorer, ky, kx)]

reset_ball(draws) ==
    /\ Run("reset_ball")
    /\ LET evs == Unread(cursor["reset_ball"])
       IN  /\ IF Len(evs) = 0 \/ ~Found("Ball")
              THEN UNCHANGED <<ballPos, ballVel, serve>>
              ELSE \E ky \in draws, kx \in draws :
                     LET s == Served(evs[Len(evs)].scorer, ky, kx)
                     IN  /\ ballPos' = Vec2(0, 0)
                         /\ ballVel' = Vec2(ToUnits(s.vel.x), ToUnits(s.vel.y))
                         /\ serve' = s
           /\ hist' = Read("reset_ball", evs)
    /\ cursor' = [cursor EXCEPT !["reset_ball"] = event_count]
    /\ UNCHANGED <<present, window, padPos, padVel, gutters, transform, keys, score,
                   scoreChanged, labels, events_a, events_b, event_count>>

update_scoreboard ==
    /\ Run("update_scoreboard")
    /\ labels' = IF scoreChanged
                 THEN [player |-> to_string(score.player), ai |-> to_string(score.ai)]
                 ELSE labels
    /\ scoreChanged' = FALSE
    /\ hist' = IF scoreChanged THEN [hist EXCEPT !.lastWrite = frame] ELSE hist
    /\ UNCHANGED <<present, window, ballPos, ballVel, padPos, padVel, gutters, transform,
                   keys, score, events_a, events_b, event_count, cursor, serve>>

-----------------------------------------------------------------------------
(* Specifications. *)

\* the keyboard states of a game: all keys up, or both paddles pulled out of
\* the ball's way (the second paddle up, the Player paddle down)
KeyStates == {{}, {"KeyW", "KeyN"}}

MaxFrames == 37

\* a window of 200 by 120
Init == InitWith(200 * Unit, 120 * Unit)

Update(draws) ==
    \/ move_ball
    \/ project_positions
    \/ handle_collisions
    \/ handle_player_input
    \/ move_paddles
    \/ detect_scoring
    \/ reset_ball(draws)
    \/ update_score
    \/ update_scoreboard

Next == BeginFrame(KeyStates, MaxFrames) \/ Update(GameDraws)

Spec == Init /\ [][Next]_vars

\* Every key combination, over a few frames.
InputFrames == 3

NextInput == BeginFrame(SUBSET Keys, InputFrames) \/ Update(GameDraws)

SpecInput == Init /\ [][NextInput]_vars

\* Both paddles driven up, down, by all four keys or by none, long enough to
\* cross the whole height of the window.
PaddleKeyStates == {{}, {"KeyY", "KeyW"}, {"KeyN", "KeyX"}, Keys}

PaddleFrames == 9

\* a window of 200 by 124: the clamp bounds, +-37, are no multiples of the
\* paddle speed, so that a paddle stands on a bound only by being clamped
InitPaddles == InitWith(200 * Unit, 124 * Unit)

NextPaddles == BeginFrame(PaddleKeyStates, PaddleFrames) \/ Update(GameDraws)

SpecPaddles == InitPaddles /\ [][NextPaddles]_vars

\* The end-to-end scenario: a window of 800 by 600 (half-width 400), the
\* paddles held out of the ball's path from the first frame on.
InitE2E == InitWith(800 * Unit, 600 * Unit)

E2EFrames == 82

NextE2E == BeginFrame({{"KeyW", "KeyN"}}, E2EFrames) \/ Update(GameDraws)

SpecE2E == InitE2E /\ [][NextE2E]_vars

\* A window barely wider than twice the fastest serve: 15 by 120.  The ball
\* leaves it two frames after every serve; no key is pressed.
InitNarrow == InitWith(15 * Unit, 120 * Unit)

NarrowFrames == 8

NextNarrow == BeginFrame({{}}, NarrowFrames) \/ Update(GameDraws)

SpecNarrow == InitNarrow /\ [][NextNarrow]_vars

\* The window is resized between two frames: the 200 by 120 window the game
\* started in, and one of 60 by 100, narrower than the paddles are apart.
WindowSizes == {[w |-> 200 * Unit, h |-> 120 * Unit], [w |-> 60 * Unit, h |-> 100 * Unit]}

\* Window.resolution changes to one of sizes before the next frame starts
Resize(sizes) ==
    /\ FrameDone
    /\ \E size \in sizes \ {window} : window' = size
    /\ UNCHANGED <<present, ballPos, ballVel, padPos, padVel, gutters, transform,
                   keys, score, scoreChanged, labels, events_a, events_b,
                   event_count, cursor, ran, frame, serve, hist>>

ResizeFrames == 8

NextResize ==
    \/ BeginFrame(KeyStates, ResizeFrames)
    \/ Resize(WindowSizes)
    \/ Update(GameDraws)

SpecResize == Init /\ [][NextResize]_vars

\* Between two frames the world changes so that get_single finds, or no
\* longer finds, exactly one ball or exactly one window (an entity despawned,
\* a window closed, a second one spawned); the components of the entities
\* that remain keep their values.
WorldChange ==
    /\ FrameDone
    /\ \E found \in [Singletons -> BOOLEAN] \ {present} : present' = found
    /\ UNCHANGED <<window, ballPos, ballVel, padPos, padVel, gutters, transform,
                   keys, score, scoreChanged, labels, events_a, events_b,
                   event_count, cursor, ran, frame, serve, hist>>

SingletonFrames == 6

\* in the 15 by 120 window, both paddles driven by their keys, every serve
\* made with the draws 0.5 and 0.5
NextSingleton ==
    \/ BeginFrame({{"KeyW", "KeyN"}}, SingletonFrames)
    \/ WorldChange
    \/ Update({2^23})

SpecSingleton == InitNarrow /\ [][NextSingleton]_vars

\* A game under way in the 200 by 120 window, between two frames: the ball
\* near the upper half of the second paddle, with the spawn velocity or a
\* serve velocity (after any bounces), the second paddle at rest in the
\* middle or against its upper clamp, where it reaches into the top gutter.
BallXs == {x * Unit : x \in 32..46}
BallYs == {y * Unit : y \in 14..38}
BallVels == {Vec2(5 * Unit, 0), Vec2(7 * Unit, 11), Vec2(4 * Unit, -4 * Unit)}
PaddleYs == {0, 35 * Unit}

InitCollide ==
    /\ present = [e \in Singletons |-> TRUE]
    /\ window = [w |-> 200 * Unit, h |-> 120 * Unit]
    /\ ballPos \in {Vec2(x, y) : x \in BallXs, y \in BallYs}
    /\ ballVel \in BallVels
    /\ padPos \in {[Player |-> Vec2(-50 * Unit, 0), Ai |-> Vec2(50 * Unit, y)] : y \in PaddleYs}
    /\ padVel = [p \in Paddles |-> Vec2(0, 0)]
    /\ gutters = <<[pos |-> Vec2(0, 50 * Unit), shape |-> Vec2(200 * Unit, GUTTER_HEIGHT)],
                   [pos |-> Vec2(0, -50 * Unit), shape |-> Vec2(200 * Unit, GUTTER_HEIGHT)]>>
    /\ transform = [e \in Entities |-> Vec2(0, 0)]
    /\ keys = {}
    /\ score = [player |-> 0, ai |-> 0]
    /\ scoreChanged = FALSE
    /\ labels = [player |-> <<0>>, ai |-> <<0>>]
    /\ events_a = <<>>
    /\ events_b = <<>>
    /\ event_count = 0
    /\ cursor = [r \in {"update_score", "reset_ball"} |-> 0]
    /\ ran = Systems
    /\ frame = 0
    /\ serve = NoServe
    /\ hist = [sends |-> <<>>, reads |-> {}, lastWrite |-> 0,
               start |-> [ballPos |-> ballPos, ballVel |-> ballVel,
                          padPos |-> padPos, score |-> score]]

CollideFrames == 1

NextCollide == BeginFrame({{}}, CollideFrames) \/ Update(GameDraws)

SpecCollide == InitCollide /\ [][NextCollide]_vars

-----------------------------------------------------------------------------
(* What the history records. *)

\* the velocity of every serve made is a whole number of halves, and the
\* ball's velocity is that number
UnitsExact ==
    serve.scorer # "None" =>
        /\ serve.vel.x % (2^24 \div Unit) = 0
        /\ serve.vel.y % (2^24 \div Unit) = 0

Readers == {"update_score", "reset_ball"}

\* the scorers of the events sent in frame f, in order
SentIn(f) ==
    LET idx == SelectSeq([i \in 1..Len(hist.sends) |-> i],
                         LAMBDA i : hist.sends[i].frame = f)
    IN  [j \in 1..Len(idx) |-> hist.sends[idx[j]].scorer]

\* the number of events sent so far for scorer s
SentFor(s) == Cardinality({i \in 1..Len(hist.sends) : hist.sends[i].scorer = s})

\* this step is system s running
Step(s) == s \in ran' /\ s \notin ran

-----------------------------------------------------------------------------
(* Scoring. *)

\* C1: when detect_scoring runs with the ball at x in a window of width W, it
\* sends exactly one Scored(Player) if x > W/2, exactly one Scored(Ai) if
\* x < -W/2, and nothing if -W/2 <= x <= W/2; no frame has more than one
\* event sent in it.
C1_DetectScoring ==
    [][Step("detect_scoring") =>
         LET new == SubSeq(events_b', Len(events_b) + 1, Len(events_b'))
         IN  /\ 2 * ballPos.x > window.w =>
                    new = <<[id |-> event_count, scorer |-> "Player"]>>
             /\ 2 * ballPos.x < -window.w =>
                    new = <<[id |-> event_count, scorer |-> "Ai"]>>
             /\ (-window.w <= 2 * ballPos.x /\ 2 * ballPos.x <= window.w) =>
                    new = <<>>
             /\ event_count' = event_count + Len(new)
             /\ SubSeq(events_b', 1, Len(events_b)) = events_b
             /\ events_a' = events_a
             /\ Len(SentIn(frame)') = Len(new)]_vars

\* C1 witness: detect_scoring has sent an event of each kind.
C1_Witness ==
    /\ SentFor("Player") >= 1
    /\ SentFor("Ai") >= 1

\* C2: the score is {player: N, ai: M} once update_score has run in a frame,
\* for N Scored(Player) and M Scored(Ai) events sent so far; only a step of
\* update_score changes the score, by exactly the events sent in that frame,
\* and no counter ever decreases.
C2_ScoreCounts ==
    /\ [](("update_score" \in ran) =>
            score = [player |-> SentFor("Player"), ai |-> SentFor("Ai")])
    /\ [][/\ score' # score => Step("update_score")
          /\ score'.player >= score.player
          /\ score'.ai >= score.ai
          /\ score'.player - score.player + score'.ai - score.ai <= 1]_vars

\* C2 witness: at the end of a frame both sides have scored.
C2_Witness ==
    /\ FrameDone
    /\ score.player >= 1
    /\ score.ai >= 1

\* C3: every event is read by update_score and by reset_ball in the frame
\* it was sent in, once each, and never again.
C3_ReadOncePerFrame ==
    /\ \A x \in hist.reads :
          /\ x.nth = 1
          /\ x.frame = hist.sends[x.id + 1].frame
    /\ \A i \in 1..Len(hist.sends), r \in Readers :
          (r \in ran \/ hist.sends[i].frame < frame) =>
              \E x \in hist.reads : x.reader = r /\ x.id = i - 1

\* C3 witness: an event sent in an earlier frame is still in a buffer of
\* Events<Scored> when both readers have run again.
C3_Witness ==
    /\ Readers \subseteq ran
    /\ \E i \in 1..Len(events_a \o events_b) :
          hist.sends[(events_a \o events_b)[i].id + 1].frame < frame

\* C4: at the end of a frame in which an event was sent the ball is at (0,0)
\* and moves left if Player scored, right if Ai scored.
C4_ServeAfterScore ==
    (FrameDone /\ SentIn(frame) # <<>>) =>
        /\ ballPos = Vec2(0, 0)
        /\ SentIn(frame)[1] = "Player" => ballVel.x < 0
        /\ SentIn(frame)[1] = "Ai" => ballVel.x > 0

\* C4 witness: a frame ends in which Ai scored.
C4_Witness ==
    /\ FrameDone
    /\ SentIn(frame) = <<"Ai">>
    /\ ballVel.x > 0

\* the number a sequence of decimal digits writes
RECURSIVE DecimalValue(_)
DecimalValue(digits) ==
    IF digits = <<>> THEN 0
    ELSE 10 * DecimalValue(SubSeq(digits, 1, Len(digits) - 1)) + digits[Len(digits)]

\* digits is the decimal string of n
IsDecimalOf(digits, n) ==
    /\ Len(digits) >= 1
    /\ \A i \in 1..Len(digits) : digits[i] \in 0..9
    /\ Len(digits) > 1 => digits[1] # 0
    /\ DecimalValue(digits) = n

\* C7: at the end of every frame each scoreboard label is the decimal string
\* of its counter.
C7_LabelsFollowScore ==
    FrameDone =>
        /\ IsDecimalOf(labels.player, score.player)
        /\ IsDecimalOf(labels.ai, score.ai)

\* C7 witness: a frame in which the score changed ends with the labels
\* showing it.
C7_Witness ==
    /\ FrameDone
    /\ SentIn(frame) # <<>>
    /\ score.ai >= 1
    /\ labels.ai = <<score.ai>>

-----------------------------------------------------------------------------
(* The end-to-end scenario. *)

\* C5 as stated: the ball is at (5,0) after 1 step, and after 80 steps it has
\* crossed the boundary, one Scored(Player) has been sent, the score is
\* {player: 1, ai: 0} and the ball is back at (0,0).
C5_AsStated ==
    /\ (frame = 1 /\ FrameDone) => ballPos = Vec2(5 * Unit, 0)
    /\ (frame = 80 /\ FrameDone) =>
          /\ hist.sends = <<[scorer |-> "Player", frame |-> 80]>>
          /\ score = [player |-> 1, ai |-> 0]
          /\ ballPos = Vec2(0, 0)

\* C5 amended: the ball is at (5,0) after 1 step; after 80 steps it stands on
\* the boundary, at (400,0), and nothing has been sent; after 81 steps one
\* Scored(Player) has been sent, in step 81, the score is {player: 1, ai: 0}
\* and the ball is back at (0,0).
C5_EndToEnd ==
    /\ (frame = 1 /\ FrameDone) => ballPos = Vec2(5 * Unit, 0)
    /\ (frame <= 80 /\ FrameDone) =>
          /\ hist.sends = <<>>
          /\ score = [player |-> 0, ai |-> 0]
          /\ ballPos = Vec2(frame * 5 * Unit, 0)
          /\ ballVel = Vec2(5 * Unit, 0)
    /\ (frame = 81 /\ FrameDone) =>
          /\ hist.sends = <<[scorer |-> "Player", frame |-> 81]>>
          /\ score = [player |-> 1, ai |-> 0]
          /\ ballPos = Vec2(0, 0)

\* C5 witness: step 81 has ended with the point counted.
C5_Witness ==
    /\ frame = 81
    /\ FrameDone
    /\ window.w = 800 * Unit
    /\ score = [player |-> 1, ai |-> 0]
    /\ ballPos = Vec2(0, 0)

-----------------------------------------------------------------------------
(* Paddles. *)

C9_InputVelocity ==
    /\ "handle_player_input" \in ran =>
          /\ padVel["Player"].y =
                (CASE "KeyY" \in keys -> 5 * Unit
                   [] "KeyY" \notin keys /\ "KeyN" \in keys -> -5 * Unit
                   [] OTHER -> 0)
          /\ padVel["Ai"].y =
                (CASE "KeyW" \in keys -> 5 * Unit
                   [] "KeyW" \notin keys /\ "KeyX" \in keys -> -5 * Unit
                   [] OTHER -> 0)
    /\ \A p \in Paddles : padVel[p].x = 0

\* C9 witness: with Y, N and X pressed the Player paddle moves up and the
\* second paddle down, in a frame after one in which both moved the other way.
C9_Witness ==
    /\ "handle_player_input" \in ran
    /\ frame >= 2
    /\ keys = {"KeyY", "KeyN", "KeyX"}
    /\ padVel["Player"].y = PADDLE_SPEED
    /\ padVel["Ai"].y = -PADDLE_SPEED
    /\ padPos["Player"].y < 0
    /\ padPos["Ai"].y > 0

-----------------------------------------------------------------------------
(* The serve. *)

\* C8 as stated: the velocity of a serve is not the zero vector,
\* 4 <= |velocity.x| < 7 and 4 <= |velocity.y| <= 5.5.
C8_AsStated ==
    serve.scorer # "None" =>
        /\ serve.vel # Vec2(0, 0)
        /\ 4 * 2^24 <= Abs(serve.vel.x)
        /\ Abs(serve.vel.x) < 7 * 2^24
        /\ 4 * 2^24 <= Abs(serve.vel.y)
        /\ Abs(serve.vel.y) <= 11 * 2^23

\* C8 amended: the velocity of a serve is not the zero vector,
\* 4 <= |velocity.x| <= 7 and 4 <= |velocity.y| <= 5.5.
C8_ServeRange ==
    serve.scorer # "None" =>
        /\ serve.vel # Vec2(0, 0)
        /\ 4 * 2^24 <= Abs(serve.vel.x)
        /\ Abs(serve.vel.x) <= 7 * 2^24
        /\ 4 * 2^24 <= Abs(serve.vel.y)
        /\ Abs(serve.vel.y) <= 11 * 2^23

\* C8 witness: a serve whose first draw makes the base Y value exactly 0 and
\* whose second draw is the greatest one.
C8_Witness ==
    /\ serve.scorer = "Player"
    /\ serve.ky = 2^23
    /\ serve.kx = 2^24 - 1
    /\ serve.vel = Vec2(-7 * 2^24, 4 * 2^24)

-----------------------------------------------------------------------------
(* Collisions. *)

\* the obstacles whose closest point is nearer to the ball's centre than d2,
\* squared (or as near, with orEqual)
Within(d2, orEqual) ==
    SelectSeq(Others, LAMBDA o :
        \/ DistanceSquared(ballPos, OtherRect(o)) < d2
        \/ orEqual /\ DistanceSquared(ballPos, OtherRect(o)) = d2)

\* C10 as stated: handle_collisions changes the ball's velocity on account of
\* no obstacle whose closest point is at a distance >= the radius; if all
\* are, the velocity is unchanged.
C10_AsStated ==
    [][Step("handle_collisions") =>
         /\ ballVel' = CollideFrom(ballVel, ballPos, Within(BALL_RADIUS * BALL_RADIUS, FALSE), 1)
         /\ Within(BALL_RADIUS * BALL_RADIUS, FALSE) = <<>> => ballVel' = ballVel]_vars

\* C10 amended: handle_collisions changes the ball's velocity on account of
\* no obstacle whose closest point is at a distance > the radius; if all
\* are, the velocity is unchanged.
C10_FarObstacles ==
    [][Step("handle_collisions") =>
         /\ ballVel' = CollideFrom(ballVel, ballPos, Within(BALL_RADIUS * BALL_RADIUS, TRUE), 1)
         /\ Within(BALL_RADIUS * BALL_RADIUS, TRUE) = <<>> => ballVel' = ballVel]_vars

\* C10 witness: handle_collisions has run with the ball moving and the
\* nearest obstacle, a paddle, farther than the radius but nearer than twice
\* the radius.
C10_Witness ==
    /\ "handle_collisions" \in ran
    /\ "reset_ball" \notin ran
    /\ Within(BALL_RADIUS * BALL_RADIUS, TRUE) = <<>>
    /\ Within(4 * BALL_RADIUS * BALL_RADIUS, TRUE) # <<>>
    /\ ballVel.x # 0

-----------------------------------------------------------------------------
(* The order of the systems within a frame. *)

\* C11: in every order the schedule admits, move_ball runs before
\* detect_scoring, detect_scoring before update_score and before reset_ball,
\* and update_score before update_scoreboard, each within the same frame.
C11_ScoringChain ==
    [][/\ Step("detect_scoring") => "move_ball" \in ran
       /\ Step("update_score") => "detect_scoring" \in ran
       /\ Step("reset_ball") => "detect_scoring" \in ran
       /\ Step("update_scoreboard") => "update_score" \in ran]_vars

\* C11 witness: in a frame in which an event was sent, reset_ball has run
\* before update_score, and handle_collisions has not run yet.
C11_Witness ==
    /\ SentIn(frame) # <<>>
    /\ {"move_ball", "detect_scoring", "reset_ball"} \subseteq ran
    /\ "update_score" \notin ran
    /\ "handle_collisions" \notin ran

\* C12: in a window whose half-width is larger than 7, a frame in which a
\* Scored event is sent is never immediately followed by a frame in which
\* another is sent: the ball is back at the centre before detect_scoring
\* examines it again.
C12_NoConsecutiveScoring ==
    /\ window.w > 2 * 7 * Unit
    /\ ~(SentIn(frame) # <<>> /\ SentIn(frame - 1) # <<>>)
    /\ (FrameDone /\ SentIn(frame) # <<>>) => ballPos = Vec2(0, 0)

\* C12 witness: an event was sent two frames ago, none in the frame after
\* it, and the ball served then with |velocity.x| = 7 is out again.
C12_Witness ==
    /\ frame >= 3
    /\ SentIn(frame - 2) # <<>>
    /\ SentIn(frame - 1) = <<>>
    /\ SentIn(frame) # <<>>
    /\ Abs(ballPos.x) = 2 * 7 * Unit

\* the systems in the order of the data flow: input, paddle motion, ball
\* motion, projection, collisions, scoring, then reset, score and scoreboard
Listed == <<"handle_player_input", "move_paddles", "move_ball",
            "project_positions", "handle_collisions", "detect_scoring",
            "reset_ball", "update_score", "update_scoreboard">>

\* C15 as stated: each frame runs its systems in the one order Listed; no
\* other order is admitted.
C15_AsStated ==
    \E n \in 0..Len(Listed) : ran = {Listed[i] : i \in 1..n}

\* C15 amended: each frame runs each of the nine systems exactly once, in an
\* order in which move_ball runs before project_positions, handle_collisions,
\* handle_player_input and detect_scoring, handle_player_input before
\* move_paddles, detect_scoring before reset_ball and update_score, and
\* update_score before update_scoreboard.
C15_PartialOrder ==
    [][/\ Step("project_positions") => "move_ball" \in ran
       /\ Step("handle_collisions") => "move_ball" \in ran
       /\ Step("handle_player_input") => "move_ball" \in ran
       /\ Step("detect_scoring") => "move_ball" \in ran
       /\ Step("move_paddles") => "handle_player_input" \in ran
       /\ Step("reset_ball") => "detect_scoring" \in ran
       /\ Step("update_score") => "detect_scoring" \in ran
       /\ Step("update_scoreboard") => "update_score" \in ran
       /\ frame' = frame => \E s \in Systems \ ran : ran' = ran \cup {s}
       /\ frame' # frame => ran = Systems /\ ran' = {}]_vars

\* C15 witness: the order is not fixed: in a frame in which an event was
\* sent, the scoreboard has been refreshed before the collisions were
\* resolved, the positions projected and the input read.
C15_Witness ==
    /\ SentIn(frame) # <<>>
    /\ ran = {"move_ball", "detect_scoring", "update_score", "update_scoreboard"}

-----------------------------------------------------------------------------
(* The response to collisions. *)

\* the number of obstacles the ball overlaps that are classified in sides
Classified(sides) ==
    Cardinality({i \in 1..Len(Others) :
        collide_with_side(ballPos, BALL_RADIUS, OtherRect(Others[i])) \in sides})

\* v, negated n times
Negated(v, n) == IF n % 2 = 0 THEN v ELSE -v

\* C13: handle_collisions only negates velocity components: velocity.y
\* becomes the prior velocity.y times (-1)^k, k the number of overlapping
\* obstacles classified Top or Bottom, velocity.x the prior velocity.x times
\* (-1)^m, m the number classified Left or Right; the magnitudes and the
\* ball's position do not change.
C13_OnlyNegates ==
    [][Step("handle_collisions") =>
         /\ ballVel'.y = Negated(ballVel.y, Classified({"Top", "Bottom"}))
         /\ ballVel'.x = Negated(ballVel.x, Classified({"Left", "Right"}))
         /\ Abs(ballVel'.x) = Abs(ballVel.x)
         /\ Abs(ballVel'.y) = Abs(ballVel.y)
         /\ ballPos' = ballPos]_vars

\* C13 witness: handle_collisions has run on a ball that moves along both
\* axes and overlaps two obstacles classified Top or Bottom at once (its
\* velocity.y negated twice), in a frame in which no paddle moves and the
\* ball is not served.
C13_Witness ==
    /\ frame >= 1
    /\ "handle_collisions" \in ran
    /\ "reset_ball" \notin ran
    /\ keys = {}
    /\ ballVel.x # 0 /\ ballVel.y # 0
    /\ Classified({"Top", "Bottom"}) >= 2

\* offset of collide_with_side: the ball's centre minus the closest point of
\* the box of obstacle o
Offset(o) ==
    LET c == closest_point(OtherRect(o), ballPos)
    IN  Vec2(ballPos.x - c.x, ballPos.y - c.y)

\* C14: for a ball that intersects an obstacle, collide_with_side answers
\* Left or Right (Left for offset.x > 0) only when |offset.x| > |offset.y|
\* strictly, and Top or Bottom (Bottom for offset.y > 0) otherwise; when
\* |offset.x| = |offset.y|, the case offset = (0,0) of a centre inside the
\* box included, the answer is Top or Bottom, and the response inverts
\* velocity.y only.
C14_Classification ==
    \A i \in 1..Len(Others) :
        LET wall == OtherRect(Others[i])
            off == Offset(Others[i])
            side == collide_with_side(ballPos, BALL_RADIUS, wall)
        IN  intersects(ballPos, BALL_RADIUS, wall) =>
              /\ side \in {"Left", "Right", "Top", "Bottom"}
              /\ side \in {"Left", "Right"} <=> Abs(off.x) > Abs(off.y)
              /\ side = "Left" => off.x > 0
              /\ side = "Right" => off.x < 0
              /\ side = "Bottom" => off.y > 0
              /\ side = "Top" => off.y <= 0
              /\ Abs(off.x) = Abs(off.y) =>
                    /\ side \in {"Top", "Bottom"}
                    /\ Respond(ballVel, side) = Vec2(ballVel.x, -ballVel.y)
              /\ off = Vec2(0, 0) => side = "Top"

\* C14 witness: handle_collisions has run on a ball that touches the corner
\* of a paddle diagonally, |offset.x| = |offset.y| # 0, and moves along
\* both axes.
C14_Witness ==
    /\ frame >= 1
    /\ "handle_collisions" \in ran
    /\ "reset_ball" \notin ran
    /\ ballVel.x # 0 /\ ballVel.y # 0
    /\ \E i \in 1..2 :
          /\ intersects(ballPos, BALL_RADIUS, OtherRect(Others[i]))
          /\ Abs(Offset(Others[i]).x) = Abs(Offset(Others[i]).y)
          /\ Offset(Others[i]).x # 0

-----------------------------------------------------------------------------
(* The window's size. *)

\* the gutters are where spawn_gutters would put them in the window as it is
GuttersFollowWindow ==
    /\ gutters[1].pos = Vec2(0, window.h \div 2 - GUTTER_HEIGHT \div 2)
    /\ gutters[2].pos = Vec2(0, -window.h \div 2 + GUTTER_HEIGHT \div 2)
    /\ gutters[1].shape = Vec2(window.w, GUTTER_HEIGHT)
    /\ gutters[2].shape = Vec2(window.w, GUTTER_HEIGHT)

\* a step of move_paddles clamps to the bounds of the window as it is, and a
\* step of detect_scoring tests the ball against half its width as it is
BoundsFollowWindow ==
    /\ Step("move_paddles") =>
          \A p \in Paddles :
            LET y == padPos[p].y + padVel[p].y
                lower == -window.h \div 2 + PADDLE_HEIGHT \div 2
                upper == window.h \div 2 - PADDLE_HEIGHT \div 2
            IN  padPos'[p].y = IF y > upper THEN upper
                               ELSE IF y < lower THEN lower ELSE y
    /\ Step("detect_scoring") =>
          Len(SentIn(frame)') = IF 2 * Abs(ballPos.x) > window.w THEN 1 ELSE 0

\* C16 as stated: in every frame, also after the window has been resized,
\* the paddle clamp bounds, the scoring boundary and the gutter placement
\* (Y position and width) are the ones derived from the window's size in
\* that frame.
C16_AsStated ==
    /\ [][BoundsFollowWindow]_vars
    /\ [](~FrameDone => GuttersFollowWindow)

\* C16 amended: in every frame, also after the window has been resized, the
\* paddle clamp bounds and the scoring boundary are the ones derived from
\* the window's size in that frame; the gutters keep the Y position and the
\* width derived from the size at startup.
C16_BoundsCurrentGuttersStartup ==
    /\ [][BoundsFollowWindow]_vars
    /\ [](gutters = <<[pos |-> Vec2(0, 50 * Unit), shape |-> Vec2(200 * Unit, GUTTER_HEIGHT)],
                      [pos |-> Vec2(0, -50 * Unit), shape |-> Vec2(200 * Unit, GUTTER_HEIGHT)]>>)

\* C16 witness: in the resized window, 60 by 100, the ball at x = 35 has
\* scored beyond the new boundary 30, and move_paddles has stopped the
\* second paddle at the new upper bound 25 (35 in the window at startup).
C16_Witness ==
    /\ window = [w |-> 60 * Unit, h |-> 100 * Unit]
    /\ "move_paddles" \in ran
    /\ "KeyW" \in keys
    /\ padPos["Ai"].y = 25 * Unit
    /\ SentIn(frame) = <<"Player">>
    /\ ~GuttersFollowWindow

-----------------------------------------------------------------------------
(* Missing singletons. *)

\* this step sends no event
NoneSent == event_count' = event_count /\ hist'.sends = hist.sends

-----------------------------------------------------------------------------
(* The scoreboard's change detection. *)

\* update_score has read an event in the current frame
ProcessedNow == \E x \in hist.reads : x.reader = "update_score" /\ x.frame = frame

\* C18 as stated: update_scoreboard writes the labels only in frames in
\* which update_score processed a Scored event.
C18_AsStated ==
    (frame >= 1 /\ hist.lastWrite = frame) => ProcessedNow

\* C18 amended: update_scoreboard writes the labels only in the first frame,
\* where it finds the Score just inserted changed, and in frames in which
\* update_score processed a Scored event; in any other frame it leaves both
\* labels alone.
C18_WritesOnChange ==
    /\ []((frame >= 1 /\ hist.lastWrite = frame) => (frame = 1 \/ ProcessedNow))
    /\ []((frame = 1 /\ "update_scoreboard" \in ran) => hist.lastWrite = 1)
    /\ [][(Step("update_scoreboard") /\ frame > 1 /\ ~ProcessedNow) =>
              (labels' = labels /\ hist'.lastWrite = hist.lastWrite)]_vars

\* C18 witness: update_scoreboard has run in a frame without an event and
\* written nothing, after it wrote the labels in an earlier frame, not the
\* first, in which an event was processed.
C18_Witness ==
    /\ "update_scoreboard" \in ran
    /\ ~ProcessedNow
    /\ hist.lastWrite > 1
    /\ hist.lastWrite < frame
    /\ labels = [player |-> <<1>>, ai |-> <<0>>]

-----------------------------------------------------------------------------
(* The orders the schedule leaves open. *)

\* the paddles of the frame's start, moved by the keys of the frame
PaddlesMoved ==
    [p \in Paddles |->
       Vec2(hist.start.padPos[p].x,
            PaddleY(hist.start.padPos[p].y,
                    IF p = "Player" THEN InputVelocityY("KeyY", "KeyN")
                    ELSE InputVelocityY("KeyW", "KeyX"),
                    window.h))]

\* the ball of the frame's start, moved
BallMoved ==
    Vec2(hist.start.ballPos.x + hist.start.ballVel.x,
         hist.start.ballPos.y + hist.start.ballVel.y)

\* the velocity handle_collisions leaves the moved ball with when it runs
\* after move_paddles
BallTurned ==
    CollideFrom(hist.start.ballVel, BallMoved,
                <<[pos |-> PaddlesMoved["Player"], shape |-> Vec2(PADDLE_WIDTH, PADDLE_HEIGHT)],
                  [pos |-> PaddlesMoved["Ai"], shape |-> Vec2(PADDLE_WIDTH, PADDLE_HEIGHT)],
                  gutters[1], gutters[2]>>, 1)

\* C19 as stated: the state at the end of a frame is the same in every order
\* the schedule admits, so in every order it is the one of the order
\* move_ball, handle_player_input, move_paddles, handle_collisions,
\* detect_scoring, reset_ball, update_score: the same ball position, ball
\* velocity, paddle positions and score, for the same state at the start of
\* the frame, keys and draws.
C19_AsStated ==
    (FrameDone /\ frame >= 1) =>
        /\ padPos = PaddlesMoved
        /\ score = Counted(hist.start.score,
                           [i \in 1..Len(SentIn(frame)) |-> [scorer |-> SentIn(frame)[i]]], 1)
        /\ IF SentIn(frame) = <<>>
           THEN ballPos = BallMoved /\ ballVel = BallTurned
           ELSE /\ ballPos = Vec2(0, 0)
                /\ ballVel = Vec2(ToUnits(serve.vel.x), ToUnits(serve.vel.y))

-----------------------------------------------------------------------------
(* Paddles and the ball. *)

\* the ball overlaps paddle p, which it approaches horizontally: velocity.x
\* is directed toward the paddle and the ball's y is within the paddle's
\* vertical extent, strictly
Approaching(p) ==
    /\ intersects(ballPos, BALL_RADIUS,
                  Aabb2d(padPos[p], Vec2(PADDLE_WIDTH \div 2, PADDLE_HEIGHT \div 2)))
    /\ (padPos[p].x - ballPos.x) * ballVel.x > 0
    /\ Abs(ballPos.y - padPos[p].y) < PADDLE_HEIGHT \div 2

\* C20 as stated: whenever the moved ball overlaps a paddle it approaches
\* horizontally, handle_collisions reverses velocity.x in that frame.
C20_AsStated ==
    [][(Step("handle_collisions") /\ \E p \in Paddles : Approaching(p)) =>
          ballVel'.x = -ballVel.x]_vars

====
